---------------------------- MODULE Spec2Model ----------------------------
(***************************************************************************)
(* conduit-cookie: the cookie middleware (src/src/lib.rs) and the signed   *)
(* session middleware (src/src/session.rs).                                *)
(*                                                                         *)
(* Text (header values, cookie names and values) is a sequence of          *)
(* one-character strings; a Rust String held in the session map is the     *)
(* sequence of its UTF-8 bytes (0..255).  The 43 significant characters of *)
(* a base64 HMAC-SHA256 digest are one opaque character, hmac(key,value);  *)
(* the 44th, the base64 pad '=', is kept as a character of its own.        *)
(***************************************************************************)
EXTENDS Integers, Sequences, FiniteSets, TLC

VARIABLES
    \* ---- the request pipeline
    pc,       \* the next step of the pipeline for the current pass
    pass,     \* "first" or "second" call of the app on the same request object
    cfg,      \* SessionMiddleware { cookie_name, key, secure }
    hdrs,     \* the request's Cookie header values, in header order
    jar,      \* the CookieJar extension of the request
    sess,     \* the Session extension of the request
    res,      \* the handler's outcome
    out,      \* the outcome the pipeline returns
    origLog,  \* the cookies given to add_original by the last before, in call order
    acc,      \* what the handler has called in this pass
    prev,     \* what the first pass left behind, for the second pass
    \* ---- the codec bench (encode / decode as pure functions)
    step,     \* "new", "raw", "encoded", "decoded"
    h,        \* the map given to encode
    order,    \* the order in which h.iter() enumerates h
    value,    \* the cookie value given to decode
    ret       \* the map decode returned

vars == <<pc, pass, cfg, hdrs, jar, sess, res, out, origLog, acc, prev,
          step, h, order, value, ret>>
pipeVars == <<pc, pass, cfg, hdrs, jar, sess, res, out, origLog, acc, prev>>
benchVars == <<step, h, order, value, ret>>

-----------------------------------------------------------------------------
(* Bounds of the model.                                                    *)

\* characters per key or value of a map given to encode
MaxStrLen == 2
\* entries of a map given to encode
MaxPairs == 2
\* characters of a hostile cookie value, bytes of a hostile decoded buffer
MaxRawLen == 4
\* characters of the Cookie header values of a request (parser bench)
MaxHdrLen == 5

-----------------------------------------------------------------------------
(* Sequences, maps.                                                        *)

EmptyMap == [x \in {} |-> <<>>]

\* HashMap::insert
MapInsert(m, k, v) == [x \in (DOMAIN m) \cup {k} |-> IF x = k THEN v ELSE m[x]]

Range(s) == {s[i] : i \in 1..Len(s)}

RECURSIVE Concat(_)
Concat(ss) == IF ss = <<>> THEN <<>> ELSE Head(ss) \o Concat(Tail(ss))

\* the sequences of at most n elements of S
RECURSIVE SeqsUpTo(_, _)
SeqsUpTo(S, n) ==
    IF n = 0 THEN {<<>>}
    ELSE LET R == SeqsUpTo(S, n - 1)
         IN  R \cup {Append(r, x) : r \in {q \in R : Len(q) = n - 1}, x \in S}

\* the sequences without repetition of at most n elements of S
Arrangements(S, n) ==
    {s \in SeqsUpTo(S, n) : \A i, j \in 1..Len(s) : i # j => s[i] # s[j]}

\* the orders a hash-based container may enumerate the set S in
Orders(S) == {s \in Arrangements(S, Cardinality(S)) : Len(s) = Cardinality(S)}

\* s.split(sep), sep in seps: the runs between separators, one more than separators
RECURSIVE Split(_, _)
Split(s, seps) ==
    LET idx == {i \in 1..Len(s) : s[i] \in seps}
    IN  IF idx = {} THEN <<s>>
        ELSE LET i == CHOOSE j \in idx : \A l \in idx : j <= l
             IN  <<SubSeq(s, 1, i - 1)>> \o Split(SubSeq(s, i + 1, Len(s)), seps)

-----------------------------------------------------------------------------
(* base64 (the base64 crate's top-level encode and decode, standard        *)
(* alphabet, padded output, padding optional on input).                    *)

B64Alphabet ==
    << "A", "B", "C", "D", "E", "F", "G", "H", "I", "J", "K", "L", "M",
       "N", "O", "P", "Q", "R", "S", "T", "U", "V", "W", "X", "Y", "Z",
       "a", "b", "c", "d", "e", "f", "g", "h", "i", "j", "k", "l", "m",
       "n", "o", "p", "q", "r", "s", "t", "u", "v", "w", "x", "y", "z",
       "0", "1", "2", "3", "4", "5", "6", "7", "8", "9", "+", "/" >>

B64Char(n) == B64Alphabet[n + 1]

IsB64Char(c) == \E i \in 1..Len(B64Alphabet) : B64Alphabet[i] = c

B64Value(c) == (CHOOSE i \in 1..Len(B64Alphabet) : B64Alphabet[i] = c) - 1

RECURSIVE base64_encode(_)
base64_encode(bytes) ==
    IF Len(bytes) = 0 THEN <<>>
    ELSE IF Len(bytes) = 1 THEN
        << B64Char(bytes[1] \div 4), B64Char((bytes[1] % 4) * 16), "=", "=" >>
    ELSE IF Len(bytes) = 2 THEN
        << B64Char(bytes[1] \div 4),
           B64Char((bytes[1] % 4) * 16 + bytes[2] \div 16),
           B64Char((bytes[2] % 16) * 4), "=" >>
    ELSE
        << B64Char(bytes[1] \div 4),
           B64Char((bytes[1] % 4) * 16 + bytes[2] \div 16),
           B64Char((bytes[2] % 16) * 4 + bytes[3] \div 64),
           B64Char(bytes[3] % 64) >>
        \o base64_encode(SubSeq(bytes, 4, Len(bytes)))

\* the bytes of a run of sextets whose length is not 1 modulo 4
RECURSIVE SextetsToBytes(_)
SextetsToBytes(q) ==
    IF Len(q) < 2 THEN <<>>
    ELSE IF Len(q) = 2 THEN << q[1] * 4 + q[2] \div 16 >>
    ELSE IF Len(q) = 3 THEN
        << q[1] * 4 + q[2] \div 16, (q[2] % 16) * 16 + q[3] \div 4 >>
    ELSE
        << q[1] * 4 + q[2] \div 16, (q[2] % 16) * 16 + q[3] \div 4,
           (q[3] % 4) * 64 + q[4] >>
        \o SextetsToBytes(SubSeq(q, 5, Len(q)))

\* Result<Vec<u8>, DecodeError>: [ok |-> TRUE, bytes |-> ..] or [ok |-> FALSE, ..]
base64_decode(text) ==
    LET n    == Len(text)
        pads == IF n >= 2 /\ text[n] = "=" /\ text[n - 1] = "=" THEN 2
                ELSE IF n >= 1 /\ text[n] = "=" THEN 1 ELSE 0
        body == SubSeq(text, 1, n - pads)
        r    == Len(body) % 4
        q    == [i \in 1..Len(body) |-> B64Value(body[i])]
        last == IF Len(body) = 0 THEN 0 ELSE q[Len(body)]
        good == /\ \A i \in 1..Len(body) : IsB64Char(body[i])
                /\ r # 1
                /\ pads > 0 => (r # 0 /\ pads <= 4 - r)
                /\ r = 2 => last % 16 = 0
                /\ r = 3 => last % 4 = 0
    IN  IF good THEN [ok |-> TRUE, bytes |-> SextetsToBytes(q)]
        ELSE [ok |-> FALSE, bytes |-> <<>>]

-----------------------------------------------------------------------------
(* UTF-8.                                                                  *)

IsCont(b) == b >= 128 /\ b <= 191

\* str::from_utf8(bytes).is_ok()
RECURSIVE from_utf8_ok(_)
from_utf8_ok(b) ==
    IF Len(b) = 0 THEN TRUE
    ELSE IF b[1] < 128 THEN from_utf8_ok(Tail(b))
    ELSE IF b[1] >= 194 /\ b[1] <= 223 THEN
        Len(b) >= 2 /\ IsCont(b[2]) /\ from_utf8_ok(SubSeq(b, 3, Len(b)))
    ELSE IF b[1] >= 224 /\ b[1] <= 239 THEN
        /\ Len(b) >= 3 /\ IsCont(b[2]) /\ IsCont(b[3])
        /\ b[1] = 224 => b[2] >= 160
        /\ b[1] = 237 => b[2] <= 159
        /\ from_utf8_ok(SubSeq(b, 4, Len(b)))
    ELSE IF b[1] >= 240 /\ b[1] <= 244 THEN
        /\ Len(b) >= 4 /\ IsCont(b[2]) /\ IsCont(b[3]) /\ IsCont(b[4])
        /\ b[1] = 240 => b[2] >= 144
        /\ b[1] = 244 => b[2] <= 143
        /\ from_utf8_ok(SubSeq(b, 5, Len(b)))
    ELSE FALSE

-----------------------------------------------------------------------------
(* The session codec (session.rs).                                         *)

\* the reserved byte that separates keys, values and pairs, and pads
SEP == 255

\* the buffer after the for loop of encode: entries in the order h.iter() gives
RECURSIVE encode_pairs(_, _, _)
encode_pairs(m, ord, i) ==
    IF i > Len(ord) THEN <<>>
    ELSE (IF i # 1 THEN <<SEP>> ELSE <<>>)
         \o ord[i] \o <<SEP>> \o m[ord[i]]
         \o encode_pairs(m, ord, i + 1)

\* the mutant: the buffer is padded to an even length only
RECURSIVE encode_pad_even(_)
encode_pad_even(b) ==
    IF Len(b) % 2 # 0 THEN encode_pad_even(Append(b, SEP)) ELSE b

\* the mutant: pad bytes are added until the byte length is a multiple of 6
RECURSIVE encode_pad_six(_)
encode_pad_six(b) ==
    IF Len(b) % 6 # 0 THEN encode_pad_six(Append(b, SEP)) ELSE b

\* while ret.len() * 8 % 6 != 0 { ret.push(0xff) }
RECURSIVE encode_pad(_)
encode_pad(b) ==
    IF (Len(b) * 8) % 6 # 0 THEN encode_pad(Append(b, SEP)) ELSE b

\* the byte buffer encode hands to base64
encode_buffer(m, ord) == encode_pad(encode_pairs(m, ord, 1))

\* SessionMiddleware::encode
SessionMiddleware_encode(m, ord) == base64_encode(encode_buffer(m, ord))

\* the mutant: characters outside the alphabet are skipped, not refused
decode_bytes_lenient(text) ==
    LET d == base64_decode(text)
        t == SelectSeq(text, IsB64Char)
    IN  IF d.ok THEN d.bytes
        ELSE SextetsToBytes([i \in 1..Len(t) |-> B64Value(t[i])])

\* decode(cookie.value().as_bytes()).unwrap_or_default()
decode_bytes(text) ==
    LET d == base64_decode(text) IN IF d.ok THEN d.bytes ELSE <<>>

\* the mutant: the loop does not stop at an empty key
RECURSIVE decode_loop_no_break(_, _, _)
decode_loop_no_break(parts, i, m) ==
    IF i + 1 > Len(parts) THEN m
    ELSE IF from_utf8_ok(parts[i]) /\ from_utf8_ok(parts[i + 1])
         THEN decode_loop_no_break(parts, i + 2, MapInsert(m, parts[i], parts[i + 1]))
         ELSE decode_loop_no_break(parts, i + 2, m)

\* the mutant: a pair with an empty key is passed over and the loop goes on
RECURSIVE decode_loop_skip_empty(_, _, _)
decode_loop_skip_empty(parts, i, m) ==
    IF i + 1 > Len(parts) THEN m
    ELSE IF Len(parts[i]) # 0 /\ from_utf8_ok(parts[i]) /\ from_utf8_ok(parts[i + 1])
         THEN decode_loop_skip_empty(parts, i + 2, MapInsert(m, parts[i], parts[i + 1]))
         ELSE decode_loop_skip_empty(parts, i + 2, m)

\* the while-let loop of decode over parts, two segments at a time from i
RECURSIVE decode_loop(_, _, _)
decode_loop(parts, i, m) ==
    IF i + 1 > Len(parts) THEN m
    ELSE IF Len(parts[i]) = 0 THEN m
    ELSE IF from_utf8_ok(parts[i]) /\ from_utf8_ok(parts[i + 1])
         THEN decode_loop(parts, i + 2, MapInsert(m, parts[i], parts[i + 1]))
         ELSE decode_loop(parts, i + 2, m)

\* SessionMiddleware::decode
SessionMiddleware_decode(text) ==
    decode_loop(Split(decode_bytes(text), {SEP}), 1, EmptyMap)

-----------------------------------------------------------------------------
(* The Cookie header parser (lib.rs).                                      *)

\* the characters str::trim removes that the model's texts hold
WhiteSpace == {" ", "\t"}

RECURSIVE trim_start(_)
trim_start(s) ==
    IF Len(s) > 0 /\ s[1] \in WhiteSpace THEN trim_start(Tail(s)) ELSE s

RECURSIVE trim_end(_)
trim_end(s) ==
    IF Len(s) > 0 /\ s[Len(s)] \in WhiteSpace
    THEN trim_end(SubSeq(s, 1, Len(s) - 1)) ELSE s

\* str::trim
trim(s) == trim_end(trim_start(s))

\* key_value.find('='): the first '=' of the text, 0 when it has none
find_eq(s) ==
    IF \E i \in 1..Len(s) : s[i] = "="
    THEN CHOOSE i \in 1..Len(s) : s[i] = "=" /\ \A j \in 1..(i - 1) : s[j] # "="
    ELSE 0

\* the mutant: the pair is cut at the last '=' of the segment
parse_pair_rfind(key_value) ==
    LET idx == {i \in 1..Len(key_value) : key_value[i] = "="}
    IN  IF idx = {} THEN <<>>
        ELSE LET i == CHOOSE j \in idx : \A l \in idx : l <= j
             IN  << [name  |-> trim(SubSeq(key_value, 1, i - 1)),
                     value |-> trim(SubSeq(key_value, i + 1, Len(key_value)))] >>

\* parse_pair: Option<(String, String)> as a sequence of no or one pair
parse_pair(key_value) ==
    LET i == find_eq(key_value)
    IN  IF i = 0 THEN <<>>
        ELSE << [name  |-> trim(SubSeq(key_value, 1, i - 1)),
                 value |-> trim(SubSeq(key_value, i + 1, Len(key_value)))] >>

\* the pairs of one header value: for cookie in cookie.split(';') { parse_pair }
RECURSIVE pairs_of_segments(_)
pairs_of_segments(segs) ==
    IF segs = <<>> THEN <<>>
    ELSE parse_pair(Head(segs)) \o pairs_of_segments(Tail(segs))

\* the pairs of all Cookie header values, in header order
RECURSIVE pairs_of_headers(_)
pairs_of_headers(hs) ==
    IF hs = <<>> THEN <<>>
    ELSE pairs_of_segments(Split(Head(hs), {";"})) \o pairs_of_headers(Tail(hs))

-----------------------------------------------------------------------------
(* Cookies and the cookie jar (the cookie crate, as lib.rs and session.rs  *)
(* use it).                                                                *)

\* Cookie::new(name, value): no attribute set
Cookie_new(name, val) ==
    [name |-> name, value |-> val, http_only |-> FALSE, secure |-> FALSE,
     same_site |-> "unset", max_age |-> -1, path |-> <<>>]

DigitChars == << "0", "1", "2", "3", "4", "5", "6", "7", "8", "9" >>

RECURSIVE Digits(_)
Digits(n) ==
    IF n < 10 THEN << DigitChars[n + 1] >>
    ELSE Digits(n \div 10) \o << DigitChars[(n % 10) + 1] >>

\* Cookie's Display, as Middleware::after calls it: delta.to_string()
Cookie_to_string(c) ==
    c.name \o <<"=">> \o c.value
    \o (IF c.http_only
        THEN << ";", " ", "H", "t", "t", "p", "O", "n", "l", "y" >> ELSE <<>>)
    \o (IF c.same_site = "Strict"
        THEN << ";", " ", "S", "a", "m", "e", "S", "i", "t", "e", "=",
                "S", "t", "r", "i", "c", "t" >> ELSE <<>>)
    \o (IF c.secure
        THEN << ";", " ", "S", "e", "c", "u", "r", "e" >> ELSE <<>>)
    \o (IF c.path # <<>>
        THEN << ";", " ", "P", "a", "t", "h", "=" >> \o c.path ELSE <<>>)
    \o (IF c.max_age >= 0
        THEN << ";", " ", "M", "a", "x", "-", "A", "g", "e", "=" >>
             \o Digits(c.max_age) ELSE <<>>)

\* CookieJar::new(), and the request before any jar is attached to it
NoJar == [attached |-> FALSE, original |-> {}, delta |-> {}]
CookieJar_new == [attached |-> TRUE, original |-> {}, delta |-> {}]

\* HashSet::replace on a set of cookies hashed by name
replace(cookies, c) == {o \in cookies : o.name # c.name} \cup {c}

\* CookieJar::add_original
add_original(j, c) == [j EXCEPT !.original = replace(j.original, c)]

\* CookieJar::add
jar_add(j, c) == [j EXCEPT !.delta = replace(j.delta, c)]

\* CookieJar::get: Option<&Cookie> as a set of no or one cookie
jar_get(j, name) ==
    IF \E c \in j.delta : c.name = name
    THEN {c \in j.delta : c.name = name}
    ELSE {c \in j.original : c.name = name}

RECURSIVE add_originals(_, _)
add_originals(j, cs) ==
    IF cs = <<>> THEN j ELSE add_originals(add_original(j, Head(cs)), Tail(cs))

\* the 43 significant characters of base64(HMAC-SHA256(key, value))
Hmac(key, val) == "hmac(" \o key \o "," \o ToString(val) \o ")"

\* the digest as the signed jar writes it: base64 of 32 bytes ends with one pad
Digest(key, val) == << Hmac(key, val), "=" >>

\* SignedJar::add: the cookie stored carries digest || value
signed_add(j, key, c) ==
    jar_add(j, [c EXCEPT !.value = Digest(key, c.value) \o c.value])

\* SignedJar's verification of a stored value: Result<String, ()>
unsign(key, cookie_value) ==
    LET n == Len(Digest(key, <<>>))
        v == SubSeq(cookie_value, n + 1, Len(cookie_value))
    IN  IF Len(cookie_value) >= n /\ SubSeq(cookie_value, 1, n) = Digest(key, v)
        THEN [ok |-> TRUE, value |-> v]
        ELSE [ok |-> FALSE, value |-> <<>>]

\* SignedJar::get: the verified cookie, with its digest stripped, or nothing
signed_get(j, key, name) ==
    {[c EXCEPT !.value = unsign(key, c.value).value] :
        c \in {d \in jar_get(j, name) : unsign(key, d.value).ok}}

-----------------------------------------------------------------------------
(* The request, its extensions and the handler's outcome.                  *)

\* const MAX_AGE_DAYS: i64 = 90
MAX_AGE_DAYS == 90

\* time::Duration::days(d), in whole seconds
days(d) == d * 24 * 60 * 60

\* no Session attached to the request
NoSession == [attached |-> FALSE, data |-> EmptyMap, dirty |-> FALSE]

\* an outcome: none yet, Ok(response) or Err(error); of a response the model
\* keeps its Set-Cookie entry: whether the header map has one, and its values
NoOutcome == [kind |-> "none", present |-> FALSE, vals |-> <<>>, err |-> "none"]
Ok(present, vals) == [kind |-> "ok", present |-> present, vals |-> vals, err |-> "none"]
Err(e) == [kind |-> "err", present |-> FALSE, vals |-> <<>>, err |-> e]

\* what the handler has called so far in this pass
NoCalls == [read |-> FALSE, mut |-> FALSE, added |-> {}]

\* what the first pass left behind
NoPrev == [wrote |-> FALSE, data |-> EmptyMap, key |-> "none",
           bare |-> FALSE, fed |-> FALSE]

\* the name of the cookie a Set-Cookie or Cookie text starts with
NameOf(text) ==
    LET p == parse_pair(Head(Split(text, {";"})))
    IN  IF p = <<>> THEN <<>> ELSE p[1].name

-----------------------------------------------------------------------------
(* The inputs of the pipeline.                                             *)

Keys == {"K1", "K2"}

CookieNames == { <<"s">>, <<"P", "a", "t", "h">> }

\* the keys and values a handler inserts into the session
SessionKeys == { <<>>, <<97>> }
SessionValues == { <<98>> }

\* the session a cookie issued earlier holds, and another one
OldSession == MapInsert(EmptyMap, <<97>>, <<98, 99>>)
OtherSession == MapInsert(EmptyMap, <<97>>, <<99>>)

OldValue == SessionMiddleware_encode(OldSession, << <<97>> >>)
OtherValue == SessionMiddleware_encode(OtherSession, << <<97>> >>)

\* the values a client may send under the session cookie's name
ClientValues ==
    { << "x" >>,                                 \* garbage
      OldValue,                                  \* well-formed, unsigned
      Digest("K1", OldValue) \o OldValue,        \* signed with K1
      Digest("K2", OldValue) \o OldValue,        \* signed with K2
      Digest("K1", OldValue) \o OtherValue }     \* altered after signing

\* the Cookie headers of the first request
FirstHeaders(name) ==
    { <<>>, << << "c", "=", "0" >> >> }
    \cup { << name \o <<"=">> \o v >> : v \in ClientValues }
    \cup { << << "c", "=", "0", ";", " " >> \o name \o <<"=">>
              \o Digest("K1", OldValue) \o OldValue >> }

\* the cookies a handler adds
HandlerCookies(name) ==
    { Cookie_new(<<"c">>, <<"1">>), Cookie_new(name, <<"1">>) }

\* the Set-Cookie entry of the response a handler builds
HandlerSetCookie == { <<>>, << << "x", "=", "1" >> >> }

HandlerErrors == {"E1", "E2"}

-----------------------------------------------------------------------------
(* The pipeline: Middleware (lib.rs) around SessionMiddleware (session.rs) *)
(* around the handler.                                                     *)

\* what is left of a request whose hook or handler panicked
Panicked(msg) == [kind |-> "panic", present |-> FALSE, vals |-> <<>>, err |-> msg]

\* Option::expect(msg) on None: the thread unwinds, nothing is returned
panic(msg) ==
    /\ pc' = "panicked"
    /\ out' = Panicked(msg)
    /\ UNCHANGED <<pass, cfg, hdrs, jar, sess, res, origLog, acc, prev>>
    /\ UNCHANGED benchVars

\* the mutant: a later cookie of the same name does not replace the earlier one
Middleware_before_first_wins ==
    /\ pc = "cookie_before"
    /\ LET cs == [i \in 1..Len(pairs_of_headers(hdrs)) |->
                    Cookie_new(pairs_of_headers(hdrs)[i].name,
                               pairs_of_headers(hdrs)[i].value)]
           keep == [i \in 1..Len(cs) |->
                      IF \E l \in 1..(i - 1) : cs[l].name = cs[i].name
                      THEN <<>> ELSE << cs[i] >>]
       IN  /\ origLog' = cs
           /\ jar' = add_originals(CookieJar_new, Concat(keep))
    /\ pc' = "session_before"
    /\ UNCHANGED <<pass, cfg, hdrs, sess, res, out, acc, prev>>
    /\ UNCHANGED benchVars

\* the mutant: a jar already attached to the request is kept
Middleware_before_keeps_jar ==
    /\ pc = "cookie_before"
    /\ LET ps == pairs_of_headers(hdrs)
           cs == [i \in 1..Len(ps) |-> Cookie_new(ps[i].name, ps[i].value)]
       IN  /\ origLog' = cs
           /\ jar' = IF jar.attached THEN jar ELSE add_originals(CookieJar_new, cs)
    /\ pc' = "session_before"
    /\ UNCHANGED <<pass, cfg, hdrs, sess, res, out, acc, prev>>
    /\ UNCHANGED benchVars

\* Middleware::before
Middleware_before ==
    /\ pc = "cookie_before"
    /\ LET ps == pairs_of_headers(hdrs)
           cs == [i \in 1..Len(ps) |-> Cookie_new(ps[i].name, ps[i].value)]
       IN  /\ origLog' = cs
           /\ jar' = add_originals(CookieJar_new, cs)
    /\ pc' = "session_before"
    /\ UNCHANGED <<pass, cfg, hdrs, sess, res, out, acc, prev>>
    /\ UNCHANGED benchVars

\* the mutant: the cookie is read from the plain jar, its digest not checked
SessionMiddleware_before_unverified ==
    /\ pc = "session_before"
    /\ jar.attached
    /\ LET found == jar_get(jar, cfg.cookie_name)
           n == Len(Digest(cfg.key, <<>>))
           session ==
               IF found = {} THEN EmptyMap
               ELSE LET c == CHOOSE c \in found : TRUE
                    IN  SessionMiddleware_decode(SubSeq(c.value, n + 1, Len(c.value)))
       IN  sess' = [attached |-> TRUE, data |-> session, dirty |-> FALSE]
    /\ pc' = "handler"
    /\ UNCHANGED <<pass, cfg, hdrs, jar, res, out, origLog, acc, prev>>
    /\ UNCHANGED benchVars

\* the mutant: a session decoded from a verified cookie starts dirty
SessionMiddleware_before_dirty_on_load ==
    /\ pc = "session_before"
    /\ jar.attached
    /\ LET found == signed_get(jar, cfg.key, cfg.cookie_name)
           session ==
               IF found = {} THEN EmptyMap
               ELSE SessionMiddleware_decode((CHOOSE c \in found : TRUE).value)
       IN  sess' = [attached |-> TRUE, data |-> session, dirty |-> found # {}]
    /\ pc' = "handler"
    /\ UNCHANGED <<pass, cfg, hdrs, jar, res, out, origLog, acc, prev>>
    /\ UNCHANGED benchVars

\* SessionMiddleware::before
SessionMiddleware_before ==
    /\ pc = "session_before"
    /\ IF jar.attached
       THEN /\ LET found == signed_get(jar, cfg.key, cfg.cookie_name)
                   session ==
                       IF found = {} THEN EmptyMap
                       ELSE SessionMiddleware_decode((CHOOSE c \in found : TRUE).value)
               IN  sess' = [attached |-> TRUE, data |-> session, dirty |-> FALSE]
            /\ pc' = "handler"
            /\ UNCHANGED <<pass, cfg, hdrs, jar, res, out, origLog, acc, prev>>
            /\ UNCHANGED benchVars
       ELSE panic("Missing cookie jar")

\* the mutant: without a Session, the accessor hands out an empty map
session_or_default ==
    /\ pc = "handler"
    /\ acc' = [acc EXCEPT !.read = TRUE]
    /\ UNCHANGED <<pc, pass, cfg, hdrs, jar, sess, res, out, origLog, prev>>
    /\ UNCHANGED benchVars

\* RequestSession::session, called by the handler
session ==
    /\ pc = "handler"
    /\ IF sess.attached
       THEN /\ acc' = [acc EXCEPT !.read = TRUE]
            /\ UNCHANGED <<pc, pass, cfg, hdrs, jar, sess, res, out, origLog, prev>>
            /\ UNCHANGED benchVars
       ELSE panic("missing cookie session")

\* the mutant: the mutable accessor hands out the map and leaves dirty alone
session_mut_clean ==
    /\ pc = "handler"
    /\ sess.attached
    /\ acc' = [acc EXCEPT !.mut = TRUE]
    /\ UNCHANGED <<pc, pass, cfg, hdrs, jar, sess, res, out, origLog, prev>>
    /\ UNCHANGED benchVars

\* RequestSession::session_mut, called by the handler, the map left as it is
session_mut ==
    /\ pc = "handler"
    /\ IF sess.attached
       THEN /\ sess' = [sess EXCEPT !.dirty = TRUE]
            /\ acc' = [acc EXCEPT !.mut = TRUE]
            /\ UNCHANGED <<pc, pass, cfg, hdrs, jar, res, out, origLog, prev>>
            /\ UNCHANGED benchVars
       ELSE panic("missing cookie session")

\* the mutant: the session cookie is written at once, on every insert
session_mut_insert_eager ==
    /\ pc = "handler"
    /\ sess.attached
    /\ \E k \in SessionKeys, v \in SessionValues :
          LET data == MapInsert(sess.data, k, v)
          IN  /\ sess' = [sess EXCEPT !.dirty = TRUE, !.data = data]
              /\ \E ord \in Orders(DOMAIN data) :
                    jar' = signed_add(jar, cfg.key,
                              [name |-> cfg.cookie_name,
                               value |-> SessionMiddleware_encode(data, ord),
                               http_only |-> TRUE, secure |-> cfg.secure,
                               same_site |-> "Strict",
                               max_age |-> days(MAX_AGE_DAYS), path |-> <<"/">>])
    /\ acc' = [acc EXCEPT !.mut = TRUE]
    /\ UNCHANGED <<pc, pass, cfg, hdrs, res, out, origLog, prev>>
    /\ UNCHANGED benchVars

\* req.session_mut().insert(k, v), called by the handler
session_mut_insert ==
    /\ pc = "handler"
    /\ IF sess.attached
       THEN /\ \E k \in SessionKeys, v \in SessionValues :
                  sess' = [sess EXCEPT !.dirty = TRUE,
                                       !.data = MapInsert(sess.data, k, v)]
            /\ acc' = [acc EXCEPT !.mut = TRUE]
            /\ UNCHANGED <<pc, pass, cfg, hdrs, jar, res, out, origLog, prev>>
            /\ UNCHANGED benchVars
       ELSE panic("missing cookie session")

\* req.cookies_mut().add(cookie), called by the handler
cookies_mut_add ==
    /\ pc = "handler"
    /\ IF jar.attached
       THEN /\ \E c \in HandlerCookies(cfg.cookie_name) :
                  /\ jar' = jar_add(jar, c)
                  /\ acc' = [acc EXCEPT !.added = acc.added \cup {c.name}]
            /\ UNCHANGED <<pc, pass, cfg, hdrs, sess, res, out, origLog, prev>>
            /\ UNCHANGED benchVars
       ELSE panic("Missing cookie jar")

\* req.cookies().get(name), called by the handler: the jar is only read
cookies ==
    /\ pc = "handler"
    /\ IF jar.attached
       THEN UNCHANGED vars
       ELSE panic("Missing cookie jar")

\* the handler returns a response
handler_ok ==
    /\ pc = "handler"
    /\ \E vals \in HandlerSetCookie : res' = Ok(vals # <<>>, vals)
    /\ pc' = "session_after"
    /\ UNCHANGED <<pass, cfg, hdrs, jar, sess, out, origLog, acc, prev>>
    /\ UNCHANGED benchVars

\* the handler returns an error
handler_err ==
    /\ pc = "handler"
    /\ \E e \in HandlerErrors : res' = Err(e)
    /\ pc' = "session_after"
    /\ UNCHANGED <<pass, cfg, hdrs, jar, sess, out, origLog, acc, prev>>
    /\ UNCHANGED benchVars

\* the mutant: the cookie is built without the secure flag of the middleware
session_cookie_not_secure(encoded) ==
    [name |-> cfg.cookie_name, value |-> encoded, http_only |-> TRUE,
     secure |-> FALSE, same_site |-> "Strict",
     max_age |-> days(MAX_AGE_DAYS), path |-> <<"/">>]

\* the cookie SessionMiddleware::after builds from the encoded session
session_cookie(encoded) ==
    [name |-> cfg.cookie_name, value |-> encoded, http_only |-> TRUE,
     secure |-> cfg.secure, same_site |-> "Strict",
     max_age |-> days(MAX_AGE_DAYS), path |-> <<"/">>]

\* the mutant: the cookie is added to the plain jar, without a digest
SessionMiddleware_after_unsigned ==
    /\ pc = "session_after"
    /\ sess.attached
    /\ IF sess.dirty
       THEN \E ord \in Orders(DOMAIN sess.data) :
               jar' = jar_add(jar,
                         session_cookie(SessionMiddleware_encode(sess.data, ord)))
       ELSE jar' = jar
    /\ prev' = IF pass = "first"
               THEN [wrote |-> sess.dirty, data |-> sess.data, key |-> cfg.key,
                     bare |-> hdrs = <<>>, fed |-> FALSE]
               ELSE prev
    /\ pc' = "cookie_after"
    /\ UNCHANGED <<pass, cfg, hdrs, sess, res, out, origLog, acc>>
    /\ UNCHANGED benchVars

\* the mutant: the two after hooks run in the other order: the Set-Cookie
\* values are computed from the delta, and then the session cookie is added
SessionMiddleware_after_last ==
    /\ pc = "session_after"
    /\ sess.attached
    /\ IF res.kind = "err"
       THEN out' = res
       ELSE \E ord \in Orders(jar.delta) :
               out' = Ok(TRUE, res.vals \o
                              [i \in 1..Len(ord) |-> Cookie_to_string(ord[i])])
    /\ IF sess.dirty
       THEN \E ord \in Orders(DOMAIN sess.data) :
               jar' = signed_add(jar, cfg.key,
                         session_cookie(SessionMiddleware_encode(sess.data, ord)))
       ELSE jar' = jar
    /\ prev' = IF pass = "first"
               THEN [wrote |-> sess.dirty, data |-> sess.data, key |-> cfg.key,
                     bare |-> hdrs = <<>>, fed |-> FALSE]
               ELSE prev
    /\ pc' = "done"
    /\ UNCHANGED <<pass, cfg, hdrs, sess, res, origLog, acc>>
    /\ UNCHANGED benchVars

\* SessionMiddleware::after
SessionMiddleware_after ==
    /\ pc = "session_after"
    /\ IF ~sess.attached
       THEN panic("session must be present after request")
       ELSE IF sess.dirty /\ ~jar.attached
       THEN panic("Missing cookie jar")
       ELSE /\ IF sess.dirty
               THEN \E ord \in Orders(DOMAIN sess.data) :
                       jar' = signed_add(jar, cfg.key,
                                 session_cookie(SessionMiddleware_encode(sess.data, ord)))
               ELSE jar' = jar
            /\ prev' = IF pass = "first"
                       THEN [wrote |-> sess.dirty, data |-> sess.data, key |-> cfg.key,
                             bare |-> hdrs = <<>>, fed |-> FALSE]
                       ELSE prev
            /\ pc' = "cookie_after"
            /\ UNCHANGED <<pass, cfg, hdrs, sess, res, out, origLog, acc>>
            /\ UNCHANGED benchVars

\* the mutant: the Set-Cookie entry is overwritten with the delta
Middleware_after_overwrite ==
    /\ pc = "cookie_after"
    /\ jar.attached
    /\ IF res.kind = "err"
       THEN out' = res
       ELSE \E ord \in Orders(jar.delta) :
               out' = Ok(TRUE, [i \in 1..Len(ord) |-> Cookie_to_string(ord[i])])
    /\ pc' = "done"
    /\ UNCHANGED <<pass, cfg, hdrs, jar, sess, res, origLog, acc, prev>>
    /\ UNCHANGED benchVars

\* the mutant: the cookies are attached before the outcome is looked at
Middleware_after_decorates_errors ==
    /\ pc = "cookie_after"
    /\ jar.attached
    /\ \E ord \in Orders(jar.delta) :
          out' = [res EXCEPT !.present = TRUE,
                     !.vals = res.vals \o [i \in 1..Len(ord) |-> Cookie_to_string(ord[i])]]
    /\ pc' = "done"
    /\ UNCHANGED <<pass, cfg, hdrs, jar, sess, res, origLog, acc, prev>>
    /\ UNCHANGED benchVars

\* Middleware::after
Middleware_after ==
    /\ pc = "cookie_after"
    /\ IF res.kind # "err" /\ ~jar.attached
       THEN panic("Missing cookie jar")
       ELSE /\ IF res.kind = "err"
               THEN out' = res
               ELSE \E ord \in Orders(jar.delta) :
                       out' = Ok(TRUE, res.vals \o
                                      [i \in 1..Len(ord) |-> Cookie_to_string(ord[i])])
            /\ pc' = "done"
            /\ UNCHANGED <<pass, cfg, hdrs, jar, sess, res, origLog, acc, prev>>
            /\ UNCHANGED benchVars

\* the app is called a second time on the same request object, its Cookie
\* header left as it was or set to a Set-Cookie value of the first response
\* (test::simple, test::dirty_tracking), the middleware built anew
call_again ==
    /\ pc = "done"
    /\ pass = "first"
    /\ \/ /\ hdrs' = hdrs
          /\ prev' = prev
       \/ /\ out.kind = "ok"
          /\ \E i \in 1..Len(out.vals) :
                /\ hdrs' = << out.vals[i] >>
                /\ prev' = [prev EXCEPT !.fed =
                              /\ prev.wrote
                              /\ i > Len(res.vals)
                              /\ NameOf(out.vals[i]) = cfg.cookie_name]
    /\ \E k \in Keys : cfg' = [cfg EXCEPT !.key = k]
    /\ pass' = "second"
    /\ pc' = "cookie_before"
    /\ res' = NoOutcome
    /\ out' = NoOutcome
    /\ acc' = NoCalls
    /\ origLog' = <<>>
    /\ UNCHANGED <<jar, sess>>
    /\ UNCHANGED benchVars

BenchIdle ==
    /\ step = "idle"
    /\ h = EmptyMap
    /\ order = <<>>
    /\ value = <<>>
    /\ ret = EmptyMap

Init ==
    /\ pc = "cookie_before"
    /\ pass = "first"
    /\ cfg \in [cookie_name : CookieNames, key : {"K1"}, secure : BOOLEAN]
    /\ hdrs \in FirstHeaders(cfg.cookie_name)
    /\ jar = NoJar
    /\ sess = NoSession
    /\ res = NoOutcome
    /\ out = NoOutcome
    /\ origLog = <<>>
    /\ acc = NoCalls
    /\ prev = NoPrev
    /\ BenchIdle

Next ==
    \/ Middleware_before
    \/ SessionMiddleware_before
    \/ session
    \/ session_mut
    \/ session_mut_insert
    \/ cookies_mut_add
    \/ handler_ok
    \/ handler_err
    \/ SessionMiddleware_after
    \/ Middleware_after
    \/ call_again

Spec == Init /\ [][Next]_vars

-----------------------------------------------------------------------------
(* Apps that leave a middleware out, or a host that does not run a hook:   *)
(* the pipeline with each hook either run or passed over.                  *)

\* Middleware::before is not run (MiddlewareBuilder without Middleware)
no_cookie_before ==
    /\ pc = "cookie_before"
    /\ pc' = "session_before"
    /\ UNCHANGED <<pass, cfg, hdrs, jar, sess, res, out, origLog, acc, prev>>
    /\ UNCHANGED benchVars

\* SessionMiddleware::before is not run (lib.rs tests: only Middleware is added)
no_session_before ==
    /\ pc = "session_before"
    /\ pc' = "handler"
    /\ UNCHANGED <<pass, cfg, hdrs, jar, sess, res, out, origLog, acc, prev>>
    /\ UNCHANGED benchVars

\* SessionMiddleware::after is not run
no_session_after ==
    /\ pc = "session_after"
    /\ pc' = "cookie_after"
    /\ UNCHANGED <<pass, cfg, hdrs, jar, sess, res, out, origLog, acc, prev>>
    /\ UNCHANGED benchVars

\* Middleware::after is not run: the handler's outcome is the app's
no_cookie_after ==
    /\ pc = "cookie_after"
    /\ out' = res
    /\ pc' = "done"
    /\ UNCHANGED <<pass, cfg, hdrs, jar, sess, res, origLog, acc, prev>>
    /\ UNCHANGED benchVars

InitMisuse ==
    /\ pc = "cookie_before"
    /\ pass = "first"
    /\ cfg = [cookie_name |-> <<"s">>, key |-> "K1", secure |-> FALSE]
    /\ hdrs \in { <<>>, << cfg.cookie_name \o <<"=">>
                              \o Digest("K1", OldValue) \o OldValue >> }
    /\ jar = NoJar
    /\ sess = NoSession
    /\ res = NoOutcome
    /\ out = NoOutcome
    /\ origLog = <<>>
    /\ acc = NoCalls
    /\ prev = NoPrev
    /\ BenchIdle

NextMisuse ==
    \/ Next
    \/ cookies
    \/ no_cookie_before
    \/ no_session_before
    \/ no_session_after
    \/ no_cookie_after

SpecMisuse == InitMisuse /\ [][NextMisuse]_vars

-----------------------------------------------------------------------------
(* The codec bench: encode and decode applied to bounded inputs.           *)

\* the strings of at most n characters, each character its UTF-8 bytes
Strings(chars, n) == {Concat(cs) : cs \in SeqsUpTo(chars, n)}

\* keys and values of the maps given to encode: 'a'; 'b' and U+00E9
BenchKeys == Strings({ <<97>> }, MaxStrLen)
BenchValues == Strings({ <<98>>, <<195, 169>> }, MaxStrLen)

\* hostile cookie values: base64 of byte buffers made of the separator, a
\* letter and a lone UTF-8 lead byte, and texts of base64 characters, pads and
\* a character outside the alphabet
HostileValues ==
    {base64_encode(b) : b \in SeqsUpTo({SEP, 97, 195}, MaxRawLen)}
    \cup SeqsUpTo({"Y", "f", "8", "=", "!"}, MaxRawLen)

PipeIdle ==
    /\ pc = "idle"
    /\ pass = "first"
    /\ cfg = [cookie_name |-> <<"s">>, key |-> "K1", secure |-> FALSE]
    /\ hdrs = <<>>
    /\ jar = NoJar
    /\ sess = NoSession
    /\ res = NoOutcome
    /\ out = NoOutcome
    /\ origLog = <<>>
    /\ acc = NoCalls
    /\ prev = NoPrev

InitCodec ==
    /\ PipeIdle
    /\ ret = EmptyMap
    /\ \/ /\ step = "new"
          /\ order \in Arrangements(BenchKeys, MaxPairs)
          /\ h \in [Range(order) -> BenchValues]
          /\ value = <<>>
       \/ /\ step = "raw"
          /\ order = <<>>
          /\ h = EmptyMap
          /\ value \in HostileValues

\* SessionMiddleware::encode(&h), h.iter() enumerating h in the order `order`
encode_step ==
    /\ step = "new"
    /\ value' = SessionMiddleware_encode(h, order)
    /\ step' = "encoded"
    /\ UNCHANGED <<h, order, ret>>
    /\ UNCHANGED pipeVars

\* SessionMiddleware::decode(Cookie::new("foo", value))
decode_step ==
    /\ step \in {"encoded", "raw"}
    /\ ret' = SessionMiddleware_decode(value)
    /\ step' = IF step = "raw" THEN "decoded_raw" ELSE "decoded"
    /\ UNCHANGED <<h, order, value>>
    /\ UNCHANGED pipeVars

NextCodec == encode_step \/ decode_step

SpecCodec == InitCodec /\ [][NextCodec]_vars

-----------------------------------------------------------------------------
(* The parser bench: Middleware::before applied to bounded Cookie headers. *)

HeaderChars == { ";", "=", " ", "a" }

\* one header value, or one text cut into two header values
HeaderInputs ==
    { <<>> }
    \cup { << t >> : t \in SeqsUpTo(HeaderChars, MaxHdrLen) }
    \cup UNION { { << SubSeq(t, 1, i), SubSeq(t, i + 1, Len(t)) >> :
                      i \in 0..Len(t) } : t \in SeqsUpTo(HeaderChars, MaxHdrLen) }

InitParse ==
    /\ pc = "cookie_before"
    /\ pass = "first"
    /\ cfg = [cookie_name |-> <<"s">>, key |-> "K1", secure |-> FALSE]
    /\ hdrs \in HeaderInputs
    /\ jar = NoJar
    /\ sess = NoSession
    /\ res = NoOutcome
    /\ out = NoOutcome
    /\ origLog = <<>>
    /\ acc = NoCalls
    /\ prev = NoPrev
    /\ BenchIdle

NextParse == Middleware_before

SpecParse == InitParse /\ [][NextParse]_vars

-----------------------------------------------------------------------------
(* Claims about the session codec, checked under SpecCodec.                *)

\* C1: for every map h with no empty key and every order encode may
\* enumerate it in, decode(encode(h)) is h: the same keys with the same
\* values, and no entry made of separator or pad bytes.
C1_RoundTrip ==
    (step = "decoded" /\ <<>> \notin DOMAIN h)
        => /\ DOMAIN ret = DOMAIN h
           /\ \A k \in DOMAIN h : ret[k] = h[k]

\* two entries, an empty value and a multi-byte one, and pad bytes to drop
C1_Witness ==
    /\ step = "decoded"
    /\ Len(order) = 2
    /\ <<>> \notin DOMAIN h
    /\ h[order[1]] = <<>>
    /\ h[order[2]] = <<195, 169>>
    /\ Len(encode_pairs(h, order, 1)) % 3 # 0
    /\ ret = h

\* C5: decode returns a map for every cookie value: its keys are non-empty
\* UTF-8 strings free of the separator, its values UTF-8 strings free of it,
\* and it is the empty map when the value is not base64.
C5_DecodeTotal ==
    step \in {"decoded", "decoded_raw"}
        => /\ \A k \in DOMAIN ret :
                /\ k # <<>>
                /\ from_utf8_ok(k) /\ from_utf8_ok(ret[k])
                /\ SEP \notin Range(k) /\ SEP \notin Range(ret[k])
           /\ ~base64_decode(value).ok => ret = EmptyMap

\* a value that is not base64 though it starts as the base64 of a pair
C5_Witness ==
    /\ step = "decoded_raw"
    /\ value = << "Y", "f", "8", "!" >>
    /\ ret = EmptyMap

\* an odd number of segments and a segment that is not UTF-8: a map all the same
C5_WitnessOdd ==
    /\ step = "decoded_raw"
    /\ value = base64_encode(<< 97, SEP, 195, SEP >>)
    /\ ret = EmptyMap

\* C6: encode(h) never ends with '=', for every map h (empty keys and
\* values included): the buffer given to base64 has a bit count divisible by 6.
C6_NoPadding ==
    step = "encoded"
        => /\ value = <<>> \/ value[Len(value)] # "="
           /\ (Len(encode_buffer(h, order)) * 8) % 6 = 0
           /\ value = base64_encode(encode_buffer(h, order))

\* a map whose pairs take 3n+1 bytes, so that two pad bytes were added
C6_Witness ==
    /\ step = "encoded"
    /\ Len(encode_pairs(h, order, 1)) % 3 = 1
    /\ <<>> \in DOMAIN h
    /\ Len(value) > 0

\* the pairs of h in the order `order`: key, separator, value, with one more
\* separator before every pair but the first
PairBytes ==
    Concat([i \in 1..Len(order) |->
               (IF i > 1 THEN << SEP >> ELSE <<>>)
                  \o order[i] \o << SEP >> \o h[order[i]]])

\* C14 as stated: the padded buffer has a byte length divisible by 6.
C14_Original ==
    step = "encoded" => Len(encode_buffer(h, order)) % 6 = 0

\* C14, amended: the buffer encode gives to base64 is the pairs followed by
\* the fewest pad bytes 0xFF (none, one or two) that make its byte length
\* divisible by 3, that is, its bit length divisible by 6.
C14_PaddedLength ==
    step = "encoded"
        => \E pads \in 0..2 :
              /\ encode_buffer(h, order) = PairBytes \o [j \in 1..pads |-> SEP]
              /\ (Len(PairBytes) + pads) % 3 = 0
              /\ \A fewer \in 0..(pads - 1) : (Len(PairBytes) + fewer) % 3 # 0

\* one pair of two bytes and one pad byte: three bytes, not a multiple of 6
C14_Witness ==
    /\ step = "encoded"
    /\ Len(order) = 1
    /\ Len(PairBytes) = 2
    /\ Len(encode_buffer(h, order)) = 3
    /\ value = << "Y", "f", "/", "/" >>

\* the segments of the decoded bytes between separators, taken two at a time
Segments == Split(decode_bytes(value), {SEP})
KeySegment(segs, i) == segs[2 * i - 1]
ValueSegment(segs, i) == segs[2 * i]

\* the pairs decode takes in: those before the first pair with an empty key
\* segment, whose key and value are both UTF-8
TakenPairs(segs) ==
    {i \in 1..(Len(segs) \div 2) :
        /\ \A j \in 1..i : KeySegment(segs, j) # <<>>
        /\ from_utf8_ok(KeySegment(segs, i))
        /\ from_utf8_ok(ValueSegment(segs, i))}

\* C15: decode returns exactly the pairs, UTF-8 in key and value, that come
\* before the first pair whose key segment is empty (of two with the same
\* key, the later); pairs at or after it are dropped, also those with a
\* non-empty key, and so is a last key segment without value segment.
C15_StopsAtEmptyKey ==
    step \in {"decoded", "decoded_raw"}
        => LET segs == Segments
               taken == TakenPairs(segs)
           IN  /\ DOMAIN ret = {KeySegment(segs, i) : i \in taken}
               /\ \A i \in taken :
                     (\A j \in taken : j > i => KeySegment(segs, j) # KeySegment(segs, i))
                        => ret[KeySegment(segs, i)] = ValueSegment(segs, i)

\* an empty key segment first, a pair with a non-empty key after it
C15_Witness ==
    /\ step = "decoded_raw"
    /\ value = base64_encode(<< SEP, SEP, 97, SEP >>)
    /\ Len(Segments) = 4
    /\ KeySegment(Segments, 2) = << 97 >>
    /\ ret = EmptyMap

\* a pair, then a key segment without value segment
C15_WitnessTrailingKey ==
    /\ step = "decoded_raw"
    /\ value = base64_encode(<< 97, SEP, SEP, 97 >>)
    /\ Len(Segments) = 3
    /\ KeySegment(Segments, 2) = << 97 >>
    /\ ret = MapInsert(EmptyMap, << 97 >>, <<>>)

-----------------------------------------------------------------------------
(* Claims about the Cookie header parser, checked under SpecParse.         *)

\* t is s without its leading and trailing white space
IsTrimOf(t, s) ==
    \E a \in 0..Len(s) : \E b \in a..Len(s) :
        /\ t = SubSeq(s, a + 1, b)
        /\ \A i \in 1..a : s[i] \in WhiteSpace
        /\ \A i \in (b + 1)..Len(s) : s[i] \in WhiteSpace
        /\ t = <<>> \/ (t[1] \notin WhiteSpace /\ t[Len(t)] \notin WhiteSpace)

HasEq(seg) == \E i \in 1..Len(seg) : seg[i] = "="

\* the segments of all header values, in header order
AllSegments == Concat([i \in 1..Len(hdrs) |-> Split(hdrs[i], {";"})])

\* C7: the cookies given to add_original are, in order, the segments (of the
\* header values split on ';') that contain '='; of each the name is the
\* trimmed text before its first '=' and the value the trimmed text after it;
\* a segment without '=' gives no pair.
C7_ParsePairs ==
    pc = "session_before"
        => LET segs == SelectSeq(AllSegments, HasEq)
           IN  /\ Len(origLog) = Len(segs)
               /\ \A i \in 1..Len(segs) :
                     \E p \in 1..Len(segs[i]) :
                        /\ segs[i][p] = "="
                        /\ \A j \in 1..(p - 1) : segs[i][j] # "="
                        /\ IsTrimOf(origLog[i].name, SubSeq(segs[i], 1, p - 1))
                        /\ IsTrimOf(origLog[i].value,
                                    SubSeq(segs[i], p + 1, Len(segs[i])))
                        /\ origLog[i] = Cookie_new(origLog[i].name, origLog[i].value)
               /\ \A c \in jar.original : \E i \in 1..Len(origLog) : origLog[i] = c

\* a segment without '=' between two pairs, the second with a second '='
C7_Witness ==
    /\ pc = "session_before"
    /\ hdrs = << << "a", ";", " ", "=", "=" >> >>
    /\ Len(origLog) = 1
    /\ origLog[1].name = <<>>
    /\ origLog[1].value = << "=" >>

\* C8: when a cookie name occurs more than once in the Cookie headers, in
\* one header value or across several, the jar holds exactly one cookie of
\* that name, and its value is that of the last occurrence in header order.
C8_LastWins ==
    pc = "session_before"
        => LET ps == pairs_of_headers(hdrs)
           IN  \A i \in 1..Len(ps) :
                  LET last == CHOOSE l \in i..Len(ps) :
                                 /\ ps[l].name = ps[i].name
                                 /\ \A n \in (l + 1)..Len(ps) : ps[n].name # ps[i].name
                      held == {c \in jar.original : c.name = ps[i].name}
                  IN  /\ Cardinality(held) = 1
                      /\ \A c \in held : c.value = ps[last].value
                      /\ jar.delta = {}

\* the same name in two header values, with different values
C8_Witness ==
    /\ pc = "session_before"
    /\ hdrs = << << "=", "a" >>, << "=", " ", ";" >> >>
    /\ jar.original = { Cookie_new(<<>>, <<>>) }

\* the same name twice in one header value, with different values
C8_WitnessOneHeader ==
    /\ pc = "session_before"
    /\ hdrs = << << "=", "a", ";", "=" >> >>
    /\ Len(origLog) = 2

-----------------------------------------------------------------------------
(* Claims about the pipeline, checked under Spec.                          *)

\* the positions of the Set-Cookie values of an outcome that name the session cookie
SessionHeaders(o) ==
    {i \in 1..Len(o.vals) : NameOf(o.vals[i]) = cfg.cookie_name}

\* C2: when the handler only reads the session (and adds no cookie of the
\* session cookie's name itself), SessionMiddleware::after writes nothing into
\* the jar and the response carries no Set-Cookie header of that name; when it
\* calls session_mut() at least once, changing the map or not, the response
\* carries exactly one.  (The response is the one a successful handler made,
\* with no Set-Cookie header of that name on it already.)
C2_DirtyTracking ==
    /\ (pc \in {"cookie_after", "done"} /\ ~acc.mut)
          => /\ {c.name : c \in jar.delta} = acc.added
             /\ jar.delta \subseteq HandlerCookies(cfg.cookie_name)
    /\ (pc = "done" /\ out.kind = "ok" /\ SessionHeaders(res) = {})
          => /\ (~acc.mut /\ cfg.cookie_name \notin acc.added)
                   => SessionHeaders(out) = {}
             /\ acc.mut => Cardinality(SessionHeaders(out)) = 1

\* session_mut() called on a session loaded from a cookie, the map left as it was
C2_Witness ==
    /\ pc = "done"
    /\ out.kind = "ok"
    /\ acc.mut
    /\ acc.read
    /\ sess.data = OldSession
    /\ Cardinality(SessionHeaders(out)) = 1

\* only session() called on a session loaded from a cookie
C2_WitnessRead ==
    /\ pc = "done"
    /\ out.kind = "ok"
    /\ acc.read
    /\ ~acc.mut
    /\ sess.data = OldSession
    /\ jar.delta # {}
    /\ SessionHeaders(out) = {}

\* the names of the attributes the session cookie is written with that the
\* Cookie header parser reads back as pairs
AttributeNames ==
    { << "S", "a", "m", "e", "S", "i", "t", "e" >>,
      << "P", "a", "t", "h" >>,
      << "M", "a", "x", "-", "A", "g", "e" >> }

\* the second pass reads the session cookie the first pass wrote for a request
\* without Cookie header, with the same key, before its handler changes the map
SecondReadsFirst ==
    /\ pass = "second"
    /\ pc = "handler"
    /\ ~acc.mut
    /\ prev.bare
    /\ prev.fed
    /\ cfg.key = prev.key

\* the first response names the session cookie when the handler inserted a pair
FirstSetsCookie ==
    (pass = "first" /\ pc = "done" /\ hdrs = <<>> /\ out.kind = "ok"
        /\ acc.mut /\ DOMAIN sess.data # {})
        => SessionHeaders(out) # {}

\* C3 as stated: every pair (k, v) the first handler left in the session is
\* read back by the second request.
C3_Original ==
    /\ FirstSetsCookie
    /\ SecondReadsFirst
          => \A k \in DOMAIN prev.data :
                k \in DOMAIN sess.data /\ sess.data[k] = prev.data[k]

\* C3, amended: every pair (k, v) the first handler left in the session is
\* read back by the second request, when the session holds no empty key and
\* the cookie name is not the name of an attribute of the written cookie.
C3_Persistence ==
    /\ FirstSetsCookie
    /\ (SecondReadsFirst /\ <<>> \notin DOMAIN prev.data
            /\ cfg.cookie_name \notin AttributeNames)
          => \A k \in DOMAIN prev.data :
                k \in DOMAIN sess.data /\ sess.data[k] = prev.data[k]

C3_Witness ==
    /\ SecondReadsFirst
    /\ cfg.cookie_name \notin AttributeNames
    /\ prev.data = MapInsert(EmptyMap, <<97>>, <<98>>)
    /\ sess.data = prev.data
    /\ Len(origLog) = 4

\* the cookie of the session cookie's name, if any, carries the digest of the
\* rest of its value under the middleware's key
Verifies ==
    \E c \in jar_get(jar, cfg.cookie_name) : \E n \in 0..Len(c.value) :
        c.value = Digest(cfg.key, SubSeq(c.value, n + 1, Len(c.value)))
                     \o SubSeq(c.value, n + 1, Len(c.value))

\* C4: when the cookie of the session cookie's name does not verify under the
\* middleware's key (absent, garbage, unsigned, altered, signed with another
\* key), before attaches a Session with an empty map and dirty = false.
C4_RejectedIsEmpty ==
    (pc = "handler" /\ ~acc.mut /\ acc.added = {} /\ ~Verifies)
        => sess = [attached |-> TRUE, data |-> EmptyMap, dirty |-> FALSE]

\* a value altered after signing
C4_Witness ==
    /\ pc = "handler"
    /\ acc = NoCalls
    /\ ~Verifies
    /\ \E c \in jar.original :
          c = Cookie_new(cfg.cookie_name, Digest("K1", OldValue) \o OtherValue)
    /\ sess.data = EmptyMap

\* a cookie the first pass signed with K1, read with K2
C4_WitnessOtherKey ==
    /\ pc = "handler"
    /\ acc = NoCalls
    /\ ~Verifies
    /\ pass = "second"
    /\ prev.fed
    /\ prev.key = "K1"
    /\ cfg.key = "K2"
    /\ DOMAIN prev.data = { <<97>> }
    /\ sess.data = EmptyMap

\* C9: on a successful response, Middleware::after appends one Set-Cookie
\* value per cookie of the jar's delta and nothing else, after the values the
\* response had, which it keeps; a cookie of the request that was not
\* modified gets none.
C9_SetCookieIsDelta ==
    (pc = "done" /\ out.kind = "ok")
        => LET n == Len(res.vals)
           IN  /\ out.present
               /\ Len(out.vals) = n + Cardinality(jar.delta)
               /\ \A i \in 1..n : out.vals[i] = res.vals[i]
               /\ \A c \in jar.delta :
                     \E i \in (n + 1)..Len(out.vals) : out.vals[i] = Cookie_to_string(c)
               /\ \A c \in jar.original :
                     (\A d \in jar.delta : d.name # c.name)
                        => \A i \in (n + 1)..Len(out.vals) : NameOf(out.vals[i]) # c.name

\* a response with a Set-Cookie value of its own, two cookies in the delta
\* and a cookie of the request left alone
C9_Witness ==
    /\ pc = "done"
    /\ out.kind = "ok"
    /\ Len(res.vals) = 1
    /\ Cardinality(jar.delta) = 2
    /\ \E c \in jar.original : \A d \in jar.delta : d.name # c.name
    /\ Len(out.vals) = 3

\* C10: when the handler failed, Middleware::after returns the handler's
\* failure as it is, with no Set-Cookie value, whatever the delta holds and
\* whether or not the session is dirty.
C10_FailurePassesThrough ==
    (pc = "done" /\ res.kind = "err")
        => /\ out = res
           /\ out = Err(res.err)

\* a failure with a dirty session and cookies in the delta
C10_Witness ==
    /\ pc = "done"
    /\ res.kind = "err"
    /\ sess.dirty
    /\ Cardinality(jar.delta) = 2
    /\ out = Err("E2")

\* C11: whenever SessionMiddleware::after has run on a dirty session, the
\* delta holds exactly one cookie of the configured name, and it is: value =
\* digest under the key, then encode(session map) for an order the map may be
\* enumerated in; HttpOnly; Secure as configured; SameSite=Strict; Max-Age of
\* 90 days in seconds; Path=/.
C11_CookieAttributes ==
    (pc \in {"cookie_after", "done"} /\ sess.dirty)
        => /\ Cardinality({c \in jar.delta : c.name = cfg.cookie_name}) = 1
           /\ \E ord \in Orders(DOMAIN sess.data) :
                 LET encoded == base64_encode(encode_buffer(sess.data, ord))
                 IN  [name |-> cfg.cookie_name,
                      value |-> Digest(cfg.key, encoded) \o encoded,
                      http_only |-> TRUE,
                      secure |-> cfg.secure,
                      same_site |-> "Strict",
                      max_age |-> 90 * 24 * 60 * 60,
                      path |-> << "/" >>] \in jar.delta

\* a session of two pairs written by a middleware built with secure = true,
\* over a cookie of the same name the handler added
C11_Witness ==
    /\ pc = "cookie_after"
    /\ sess.dirty
    /\ cfg.secure
    /\ Cardinality(DOMAIN sess.data) = 2
    /\ cfg.cookie_name \in acc.added

\* the steps of one pass in their order, and the step to the next pass
HookOrder ==
    { << "cookie_before", "session_before" >>,
      << "session_before", "handler" >>,
      << "handler", "session_after" >>,
      << "session_after", "cookie_after" >>,
      << "cookie_after", "done" >>,
      << "done", "cookie_before" >> }

\* the session cookie of the delta: of the configured name, its value a
\* digest under the key followed by the encoded session
SignedSessionCookies ==
    {c \in jar.delta :
        /\ c.name = cfg.cookie_name
        /\ \E ord \in Orders(DOMAIN sess.data) :
              LET encoded == SessionMiddleware_encode(sess.data, ord)
              IN  c.value = Digest(cfg.key, encoded) \o encoded}

\* C16: the position in the pipeline only moves along Middleware::before,
\* SessionMiddleware::before, handler, SessionMiddleware::after,
\* Middleware::after; and when the session is dirty and the handler succeeded,
\* the signed session cookie is in the delta when Middleware::after starts,
\* and the response Middleware::after returns has a Set-Cookie value, after
\* those of the handler, that is this cookie's text.
C16_HookOrder ==
    /\ [][pc' # pc => << pc, pc' >> \in HookOrder]_vars
    /\ []((pc \in {"cookie_after", "done"} /\ sess.dirty /\ res.kind = "ok")
            => /\ SignedSessionCookies # {}
               /\ pc = "done"
                     => /\ out.kind = "ok"
                        /\ \E c \in SignedSessionCookies :
                              \E i \in (Len(res.vals) + 1)..Len(out.vals) :
                                 out.vals[i] = Cookie_to_string(c))

\* a handler that changed a loaded session and set a Set-Cookie value of its own
C16_Witness ==
    /\ pc = "done"
    /\ out.kind = "ok"
    /\ sess.dirty
    /\ DOMAIN sess.data = { <<>>, <<97>> }
    /\ Len(res.vals) = 1
    /\ Len(out.vals) = 2
    /\ NameOf(out.vals[2]) = cfg.cookie_name

\* C17: from the end of SessionMiddleware::before to SessionMiddleware::after,
\* dirty is true exactly when session_mut() was called since before; a step of
\* before leaves dirty false, also when it decoded a verified cookie; a step
\* of session() leaves the Session as it is; and no step in between takes
\* dirty from true to false.
C17_DirtyFlag ==
    /\ [](pc \in {"handler", "session_after"} => (sess.dirty <=> acc.mut))
    /\ [][SessionMiddleware_before => (sess'.attached /\ ~sess'.dirty)]_vars
    /\ [][session => sess' = sess]_vars
    /\ [][(pc \in {"handler", "session_after"} /\ sess.dirty) => sess'.dirty]_vars

\* a session decoded from a verified cookie, read, then handed out mutably
\* and left as it was
C17_Witness ==
    /\ pc = "session_after"
    /\ sess.data = OldSession
    /\ acc.read
    /\ acc.mut
    /\ sess.dirty

\* a session decoded from a verified cookie and only read
C17_WitnessClean ==
    /\ pc = "session_after"
    /\ sess.data = OldSession
    /\ acc.read
    /\ ~acc.mut
    /\ ~sess.dirty

\* C18: as long as SessionMiddleware::after has not run in a pass (the
\* handler running, or returned), the delta holds the cookies the handler
\* added and nothing else, there is no outcome of the pipeline, and the
\* handler's response has no Set-Cookie value naming the session cookie,
\* whatever the handler called on the session.
C18_NothingBeforeAfter ==
    pc \in {"handler", "session_after"}
        => /\ {c.name : c \in jar.delta} = acc.added
           /\ jar.delta \subseteq HandlerCookies(cfg.cookie_name)
           /\ out = NoOutcome
           /\ SessionHeaders(res) = {}

\* a handler that read the session and inserted two pairs, and returned
C18_Witness ==
    /\ pc = "session_after"
    /\ acc.read
    /\ sess.dirty
    /\ DOMAIN sess.data = { <<>>, <<97>> }
    /\ jar.delta = {}
    /\ res.kind = "ok"

\* C19: when the handler added no cookie and did not call session_mut(), so
\* that the delta is empty, and its response has no Set-Cookie entry, the
\* response the pipeline returns has no Set-Cookie entry either.
C19_NoEntryWhenUntouched ==
    (pc = "done" /\ out.kind = "ok" /\ acc.added = {} /\ ~acc.mut
        /\ jar.delta = {} /\ ~res.present)
        => ~out.present

\* the cookies the Cookie headers of the request give
HeaderCookies ==
    {Cookie_new(p.name, p.value) : p \in Range(pairs_of_headers(hdrs))}

\* C20: a step of Middleware::before leaves a jar with an empty delta whose
\* cookies all come from the Cookie headers, whatever jar was attached; a step
\* of SessionMiddleware::before leaves a Session with dirty = false whose map
\* is decoded from the cookie that verifies under the key, or empty, whatever
\* Session was attached; and a second pass whose handler adds no cookie and
\* does not call session_mut() appends no Set-Cookie value to its response.
C20_FreshEveryPass ==
    /\ [][Middleware_before
            => /\ jar'.attached
               /\ jar'.delta = {}
               /\ jar'.original \subseteq HeaderCookies
               /\ \A c \in HeaderCookies : \E d \in jar'.original : d.name = c.name]_vars
    /\ [][SessionMiddleware_before
            => /\ sess'.attached
               /\ ~sess'.dirty
               /\ ~Verifies => sess'.data = EmptyMap
               /\ Verifies =>
                     \E c \in jar.original : \E n \in 0..Len(c.value) :
                        /\ c.name = cfg.cookie_name
                        /\ c.value = Digest(cfg.key, SubSeq(c.value, n + 1, Len(c.value)))
                                         \o SubSeq(c.value, n + 1, Len(c.value))
                        /\ sess'.data =
                              SessionMiddleware_decode(SubSeq(c.value, n + 1, Len(c.value)))]_vars
    /\ []((pass = "second" /\ pc = "done" /\ out.kind = "ok"
              /\ acc.added = {} /\ ~acc.mut)
            => out.vals = res.vals)

\* a first pass that added the cookie c and wrote the session, its Set-Cookie
\* value for c sent back; a second pass that only read: no Set-Cookie value
C20_Witness ==
    /\ pass = "second"
    /\ pc = "done"
    /\ prev.wrote
    /\ hdrs = << << "c", "=", "1" >> >>
    /\ acc = [read |-> TRUE, mut |-> FALSE, added |-> {}]
    /\ out = Ok(TRUE, <<>>)

\* the second pass about to run SessionMiddleware::before: the jar is new,
\* the Session is still the dirty one of the first pass
C20_WitnessStale ==
    /\ pass = "second"
    /\ pc = "session_before"
    /\ jar.delta = {}
    /\ sess.dirty
    /\ DOMAIN sess.data # {}

\* C13: when the handler failed, SessionMiddleware::after has left the jar as
\* the handler left it, dirty session or not: the delta holds the cookies the
\* handler added and no cookie encoded and signed from the session.
C13_NoWriteOnFailure ==
    (pc \in {"cookie_after", "done"} /\ res.kind = "err")
        => /\ {c.name : c \in jar.delta} = acc.added
           /\ jar.delta \subseteq HandlerCookies(cfg.cookie_name)

-----------------------------------------------------------------------------
(* Claims about hooks run out of order, checked under SpecMisuse.          *)

\* the request was abandoned by a panic: no outcome, error value or default
\* came back, and nothing was attached or changed
AbortedStep ==
    /\ pc' = "panicked"
    /\ out'.kind = "panic"
    /\ jar' = jar /\ sess' = sess /\ res' = res /\ acc' = acc

\* C12: a step of session(), session_mut() or SessionMiddleware::after taken
\* while no Session is attached, and a step of cookies(), cookies_mut() or
\* SessionMiddleware::before taken while no jar is attached, panics: it
\* returns neither an outcome nor a default, and leaves the request as it was.
C12_MisusePanics ==
    [][ /\ ((session \/ session_mut \/ session_mut_insert \/ SessionMiddleware_after)
              /\ ~sess.attached) => AbortedStep
        /\ ((cookies \/ cookies_mut_add \/ SessionMiddleware_before)
              /\ ~jar.attached) => AbortedStep ]_vars

\* SessionMiddleware::after run on a request SessionMiddleware::before never saw
C12_Witness ==
    /\ pc = "panicked"
    /\ out = Panicked("session must be present after request")
    /\ jar.attached
    /\ ~sess.attached
    /\ res.kind = "ok"

\* SessionMiddleware::before run on a request without jar
C12_WitnessNoJar ==
    /\ pc = "panicked"
    /\ out = Panicked("Missing cookie jar")
    /\ ~jar.attached
    /\ res.kind = "none"
    /\ ~sess.attached

\* an accessor of the session called by the handler without Session
C12_WitnessAccessor ==
    /\ pc = "panicked"
    /\ out = Panicked("missing cookie session")
    /\ res.kind = "none"

=============================================================================
